---- MODULE Spec2Model ----
(***************************************************************************)
(* Identifier redaction of the anonymization filter.                       *)
(*                                                                         *)
(* Two variants of the redactor exist in the repository:                   *)
(*   reemplazar_identificadores  (dataset_filter_ID.py, text_filter_ID.py) *)
(*   replace_identifiers         (src/filter_ID.py, src/full_anon.py)      *)
(* Each has its own pattern table.  A text is a sequence of one-character  *)
(* strings; offsets are Python offsets (0-based, end exclusive).           *)
(***************************************************************************)
EXTENDS Integers, Sequences, FiniteSets, TLC

(***************************************************************************)
(* Bounds of the model.                                                    *)
(***************************************************************************)
MaxParts == 3          \* an input text is made of at most MaxParts fragments
MaxPasses == 2         \* how many times an output is fed back to the redactor

(***************************************************************************)
(* Character classes of Python's re module (str patterns, re.IGNORECASE).  *)
(***************************************************************************)
Digit == {"0", "1", "2", "3", "4", "5", "6", "7", "8", "9"}

UpperAZ == {"A", "B", "C", "D", "E", "F", "G", "H", "I", "J", "K", "L", "M",
            "N", "O", "P", "Q", "R", "S", "T", "U", "V", "W", "X", "Y", "Z"}

LowerAZ == {"a", "b", "c", "d", "e", "f", "g", "h", "i", "j", "k", "l", "m",
            "n", "o", "p", "q", "r", "s", "t", "u", "v", "w", "x", "y", "z"}

\* [A-Z] under IGNORECASE
AZ == UpperAZ \cup LowerAZ

\* \s
Space == {" ", "\t", "\n", "\r", "\f"}

\* [-\s]
DashSp == {"-"} \cup Space

\* [.\s-]
DotDashSp == {".", "-"} \cup Space

\* \w : what \b is defined by
\* accented vowels: word characters for \b, outside of [A-Z]
Accented == {"á", "é", "í", "ó", "ú", "Á", "É", "Í", "Ó", "Ú"}

WordChar == Digit \cup AZ \cup Accented \cup {"_", "Ñ", "ñ"}

(***************************************************************************)
(* Pattern items.  A pattern is \b item ... item \b; an item is a          *)
(* character class with a greedy {lo,hi} repetition, or an alternation of  *)
(* literals tried in order.                                                *)
(***************************************************************************)
Rep(S, lo, hi) == [cls |-> S, lo |-> lo, hi |-> hi, alts |-> << >>]
One(S) == Rep(S, 1, 1)
Opt(S) == Rep(S, 0, 1)
N(S, n) == Rep(S, n, n)
\* a literal letter under IGNORECASE
Lit(up, low) == One({up, low})
Alt(alts) == [cls |-> {}, lo |-> 1, hi |-> 1, alts |-> alts]

D(n) == N(Digit, n)
DR(lo, hi) == Rep(Digit, lo, hi)
Sep == One(DashSp)
SepQ == Opt(DashSp)
Sep3 == One(DotDashSp)
Dash == One({"-"})
DashQ == Opt({"-"})
\* [- ]
DashBlank == One({"-", " "})
\* [JGVEP]
JGVEP == One({"J", "G", "V", "E", "P", "j", "g", "v", "e", "p"})
\* [VvEe]
VE == One({"V", "v", "E", "e"})
\* [HM]
HM == One({"H", "M", "h", "m"})
\* [A-Z0-9]
AZ09 == AZ \cup Digit
\* [A-ZÑ&]
AZNAmp == AZ \cup {"Ñ", "ñ", "&"}
\* [\dkK]
DigitK == Digit \cup {"k", "K"}

(***************************************************************************)
(* Pattern table of dataset_filter_ID.py and text_filter_ID.py, in         *)
(* dictionary (insertion) order.                                           *)
(***************************************************************************)
ordered_regex_patterns ==
  << <<D(4), Sep, D(6), Sep, D(3), Sep, D(1)>>,                 \* NIT_SLV
     <<D(1), Sep, D(2), Sep, D(5), Sep, D(1)>>,                 \* RNC_DOM
     <<D(4), Sep, D(4), Sep, D(5)>>,                            \* RTN_HND
     <<D(3), Sep, D(6), Sep, D(4), Opt(AZ)>>,                   \* CI_NIC
     <<D(3), Sep, D(6), Sep, D(4), Opt(AZ)>>,                   \* RUC_NIC
     <<D(10), Sep, D(3)>>,                                      \* RUC_ECU
     <<D(3), Sep, D(7), Sep, D(1)>>,                            \* CIE_DOM
     <<D(3), Sep3, D(3), Sep3, D(3), Sep3, D(2)>>,              \* CPF_BRA
     <<DR(1, 4), Sep, DR(1, 4), Sep, DR(1, 4)>>,                \* RUC_PAN
     <<D(6), Sep, D(5)>>,                                       \* CI_CUB
     <<D(1), Sep, D(4), Sep, D(4)>>,                            \* CI_CRI
     <<D(4), One(Space), D(5), One(Space), D(4)>>,              \* DPI_GTM
     <<N(AZ, 4), DashQ, D(6), DashQ, HM, N(AZ, 5), One(AZ09)>>, \* CURP_MEX
     <<Rep(AZNAmp, 3, 4), DashQ, D(6), DashQ, N(AZ09, 3)>>,     \* RFC_MEX
     <<JGVEP, Sep, D(8), Sep, D(1)>>,                           \* RIF_VEN
     <<DR(6, 8), Sep, N(AZ, 2)>>,                               \* CI_BOL
     <<DR(6, 8), Opt(AZ), Sep, D(1)>>,                          \* RUC_PRY
     <<D(2), Sep3, D(8), Sep3, D(1)>>,                          \* CUIT_ARG
     <<DR(8, 10), Dash, D(1)>>,                                 \* NIT_COL
     <<DR(1, 2), Sep3, D(3), Sep3, D(3), Sep3, D(1)>>,          \* CI_URU
     <<DR(1, 2), Sep3, D(3), Sep3, D(3), Opt(DotDashSp), One(DigitK)>>, \* RUT_CHI
     <<VE, Sep, DR(6, 8)>>,                                     \* CI_VEN
     <<Lit("A", "a"), Lit("A", "a"), Sep, D(7)>>,               \* PAS_ARG
     <<Lit("C", "c"), Sep, D(8)>>,                              \* PAS_CHI
     <<Lit("G", "g"), Sep, D(8)>>,                              \* PAS_MEX
     <<DR(6, 8), Sep, D(1)>>,                                   \* NIT_GTM
     <<DR(6, 8), Sep, D(1)>>,                                   \* NIT_BOL
     <<D(2), Sep, D(2), Sep, D(2), Sep, D(5)>> >>               \* ID_HTI

(***************************************************************************)
(* Pattern table of src/filter_ID.py (src/full_anon.py holds a copy), in   *)
(* dictionary order; PATTERNS compiles its values in that order.           *)
(***************************************************************************)
RAW_PATTERNS ==
  << <<D(3), Sep, D(6), Sep, D(4), Opt(AZ)>>,                   \* CI_NIC
     <<D(3), Sep, D(6), Sep, D(4), Opt(AZ)>>,                   \* RUC_NIC
     <<D(3), Sep3, D(3), Sep3, D(3), Sep3, D(2)>>,              \* CPF_BRA
     <<D(4), One(Space), D(5), One(Space), D(4)>>,              \* DPI_GTM
     <<N(AZ, 4), DashQ, D(6), DashQ, HM, N(AZ, 5), One(AZ09)>>, \* CURP_MEX
     <<Rep(AZNAmp, 3, 4), DashQ, D(6), DashQ, N(AZ09, 3)>>,     \* RFC_MEX
     <<JGVEP, DashBlank, D(8), DashBlank, D(1)>>,               \* RIF_VEN
     <<DR(6, 8), Sep, N(AZ, 2)>>,                               \* CI_BOL
     <<DR(6, 8), Opt(AZ), Sep, D(1)>>,                          \* RUC_PRY
     <<D(2), Sep3, D(8), Sep3, D(1)>>,                          \* CUIT_ARG
     <<DR(1, 2), Sep3, D(3), Sep3, D(3), Sep3, D(1)>>,          \* CI_URU
     <<DR(1, 2), Sep3, D(3), Sep3, D(3), Opt(DotDashSp), One(DigitK)>>, \* RUT_CHI
     <<VE, DashBlank, DR(6, 8)>>,                               \* CI_VEN
     <<Lit("A", "a"), Lit("A", "a"), Sep, D(7)>>,               \* PAS_ARG
     <<Lit("C", "c"), Dash, D(8)>>,                             \* PAS_CHI
     <<Lit("G", "g"), Dash, D(8)>>,                             \* PAS_MEX
     <<D(2), Sep, D(2), Sep, D(2), Sep, D(5)>>,                 \* ID_HTI
     <<Lit("C", "c"), Lit("R", "r"), SepQ, D(1), SepQ, D(4), SepQ, D(4)>>, \* CI_CRI
     <<Lit("C", "c"), Lit("U", "u"), Lit("B", "b"), SepQ, D(6), SepQ, D(5)>>, \* CI_CUB
     <<Lit("B", "b"), Lit("O", "o"), SepQ, DR(6, 8), SepQ, D(1)>>, \* NIT_BOL
     <<Lit("C", "c"), Lit("O", "o"), Lit("L", "l"), SepQ, DR(8, 10), Dash, D(1)>>, \* NIT_COL
     <<Lit("G", "g"), Lit("T", "t"), SepQ, DR(6, 8), SepQ, D(1)>>, \* NIT_GTM
     <<Lit("S", "s"), Lit("V", "v"), SepQ, D(4), SepQ, D(6), SepQ, D(3), SepQ, D(1)>>, \* NIT_SLV
     <<Lit("R", "r"), Lit("D", "d"), SepQ, D(1), SepQ, D(2), SepQ, D(5), SepQ, D(1)>>, \* RNC_DOM
     <<Lit("H", "h"), Lit("N", "n"), SepQ, D(4), SepQ, D(4), SepQ, D(5)>>, \* RTN_HND
     <<Lit("E", "e"), Lit("C", "c"), SepQ, D(10), SepQ, D(3)>>, \* RUC_ECU
     <<Lit("P", "p"), SepQ, DR(1, 4), SepQ, DR(1, 4), SepQ, DR(1, 4)>>, \* RUC_PAN
     <<Lit("P", "p"), Lit("E", "e"), SepQ,
       Alt(<< <<"1", "0">>, <<"1", "5">>, <<"1", "6">>, <<"1", "7">>, <<"2", "0">> >>),
       D(8)>> >>                                                \* RUC_PER

(***************************************************************************)
(* The matcher: re's backtracking search, greedy repetition.               *)
(***************************************************************************)
Min(a, b) == IF a < b THEN a ELSE b

\* the character at Python offset i
At(text, i) == text[i + 1]

IsWordAt(text, i) == i >= 0 /\ i < Len(text) /\ At(text, i) \in WordChar

\* \b at offset pos
WordBoundary(text, pos) == IsWordAt(text, pos - 1) # IsWordAt(text, pos)

\* how many characters of class S follow offset pos, at most hi
RECURSIVE Run(_, _, _, _)
Run(text, pos, S, hi) ==
  IF hi = 0 \/ pos >= Len(text) \/ At(text, pos) \notin S THEN 0
  ELSE 1 + Run(text, pos + 1, S, hi - 1)

\* does the literal lit stand at offset pos
StartsWith(text, pos, lit) ==
  /\ pos + Len(lit) <= Len(text)
  /\ \A j \in 1..Len(lit) : At(text, pos + j - 1) = lit[j]

\* end offset of the match of items k.. of pat at pos followed by \b, or -1
RECURSIVE MatchFrom(_, _, _, _)
RECURSIVE TryCounts(_, _, _, _, _, _)
RECURSIVE TryAlts(_, _, _, _, _)
MatchFrom(pat, k, text, pos) ==
  IF k > Len(pat) THEN (IF WordBoundary(text, pos) THEN pos ELSE -1)
  ELSE IF pat[k].alts # << >> THEN TryAlts(pat, k, text, pos, 1)
  ELSE LET n == Run(text, pos, pat[k].cls, pat[k].hi)
       IN  IF n < pat[k].lo THEN -1
           ELSE TryCounts(pat, k, text, pos, n, pat[k].lo)

\* greedy: the longest repetition first, then shorter ones
TryCounts(pat, k, text, pos, n, lo) ==
  LET r == MatchFrom(pat, k + 1, text, pos + n)
  IN  IF r # -1 THEN r
      ELSE IF n > lo THEN TryCounts(pat, k, text, pos, n - 1, lo)
      ELSE -1

TryAlts(pat, k, text, pos, a) ==
  IF a > Len(pat[k].alts) THEN -1
  ELSE LET r == IF StartsWith(text, pos, pat[k].alts[a])
                THEN MatchFrom(pat, k + 1, text, pos + Len(pat[k].alts[a]))
                ELSE -1
       IN  IF r # -1 THEN r ELSE TryAlts(pat, k, text, pos, a + 1)

\* end offset of a match of pat starting exactly at pos, or -1
MatchAt(pat, text, pos) ==
  IF WordBoundary(text, pos) THEN MatchFrom(pat, 1, text, pos) ELSE -1

\* pat.finditer(text): leftmost matches, no two of one pattern overlapping
RECURSIVE finditer(_, _, _)
finditer(pat, text, pos) ==
  IF pos > Len(text) THEN << >>
  ELSE LET e == MatchAt(pat, text, pos)
       IN  IF e = -1 THEN finditer(pat, text, pos + 1)
           ELSE <<[start |-> pos, end |-> e]>>
                \o finditer(pat, text, IF e > pos THEN e ELSE pos + 1)

\* the collection loop: every match of every pattern, in table order
RECURSIVE FindAll(_, _, _)
FindAll(patterns, text, p) ==
  IF p > Len(patterns) THEN << >>
  ELSE finditer(patterns[p], text, 0) \o FindAll(patterns, text, p + 1)

(***************************************************************************)
(* Python list and string helpers used by the redactors.                   *)
(***************************************************************************)
\* seq[a:b] with Python's clamping of the indices
Slice(seq, a, b) ==
  LET lo == Min(a, Len(seq))
      hi == Min(b, Len(seq))
  IN  IF hi <= lo THEN << >> ELSE SubSeq(seq, lo + 1, hi)

\* seq[a:b] = val
SliceAssign(seq, a, b, val) ==
  LET lo == Min(a, Len(seq))
      hi == IF Min(b, Len(seq)) < lo THEN lo ELSE Min(b, Len(seq))
  IN  SubSeq(seq, 1, lo) \o val \o SubSeq(seq, hi + 1, Len(seq))

\* variant: str.ljust(width, "0")
ljust_zeros(str, width) ==
  IF Len(str) >= width THEN str
  ELSE str \o [j \in 1..(width - Len(str)) |-> "0"]

\* str.ljust(width): never shortens the string
ljust(str, width) ==
  IF Len(str) >= width THEN str
  ELSE str \o [j \in 1..(width - Len(str)) |-> " "]

\* variant: looks at the last position of the span only
AnyOccupied_last(occ, start, end) ==
  start < end /\ end <= Len(occ) /\ occ[end]

\* variant: any(occupied[:end])
AnyOccupied_prefix(occ, start, end) ==
  \E j \in 1..Len(Slice(occ, 0, end)) : Slice(occ, 0, end)[j]

\* any(occupied[start:end])
AnyOccupied(occ, start, end) ==
  \E j \in 1..Len(Slice(occ, start, end)) : Slice(occ, start, end)[j]

\* variant: for i in range(end, start), which marks nothing
MarkOccupied_none(occ, start, end) ==
  [j \in 1..Len(occ) |-> IF j - 1 >= end /\ j - 1 < start THEN TRUE ELSE occ[j]]

\* for i in range(start, end): occupied[i] = True
MarkOccupied(occ, start, end) ==
  [j \in 1..Len(occ) |-> IF j - 1 >= start /\ j - 1 < end THEN TRUE ELSE occ[j]]

\* variant: key (end - start, start), shortest first
KeyLess_shortest(a, b) ==
  \/ (a.end - a.start) < (b.end - b.start)
  \/ /\ (a.end - a.start) = (b.end - b.start)
     /\ a.start < b.start

\* variant: key (-(end - start), -start), rightmost first among equals
KeyLess_rightmost(a, b) ==
  \/ -(a.end - a.start) < -(b.end - b.start)
  \/ /\ -(a.end - a.start) = -(b.end - b.start)
     /\ -a.start < -b.start

\* variant: key -(end - start) alone, ties left in collection order
KeyLess_lengthOnly(a, b) == -(a.end - a.start) < -(b.end - b.start)

\* the sort key (-(end - start), start), compared as Python compares tuples
KeyLess(a, b) ==
  \/ -(a.end - a.start) < -(b.end - b.start)
  \/ /\ -(a.end - a.start) = -(b.end - b.start)
     /\ a.start < b.start

\* list.sort(key=...): stable, ascending in the key
RECURSIVE InsertSorted(_, _)
InsertSorted(sorted, x) ==
  IF sorted = << >> THEN <<x>>
  ELSE IF KeyLess(x, Head(sorted)) THEN <<x>> \o sorted
  ELSE <<Head(sorted)>> \o InsertSorted(Tail(sorted), x)

RECURSIVE SortSpans(_)
SortSpans(seq) ==
  IF seq = << >> THEN << >>
  ELSE InsertSorted(SortSpans(SubSeq(seq, 1, Len(seq) - 1)), seq[Len(seq)])

(***************************************************************************)
(* The two variants of the redactor.                                       *)
(***************************************************************************)
REEMPLAZAR == "reemplazar_identificadores"
REPLACE == "replace_identifiers"
Impls == {REEMPLAZAR, REPLACE}

\* "<ID>": the default of replace_identifiers' label parameter and the
\* etiqueta_texto of reemplazar_identificadores
DefaultLabel == <<"<", "I", "D", ">">>

\* a caller-supplied label longer than the identifiers of the input set
LongLabel == <<"<", "I", "D", "E", "N", "T", "I", "F", "I", "C", "A", "D", "O", "R", ">">>

\* the labels a call can carry: label is a parameter of replace_identifiers
\* only
LabelsOf(im) == IF im = REPLACE THEN {DefaultLabel, LongLabel} ELSE {DefaultLabel}

\* the pattern table a variant iterates
PatternsOf(im) == IF im = REPLACE THEN RAW_PATTERNS ELSE ordered_regex_patterns

\* variant: replace_identifiers writes the label without padding it
Replacement_unpadded(im, lbl, start, end) ==
  IF im = REPLACE
  THEN lbl
  ELSE Slice(ljust(lbl, end - start), 0, end - start)

\* the characters written over chars[start:end] for an accepted span
Replacement(im, lbl, start, end) ==
  IF im = REPLACE
  THEN ljust(lbl, end - start)
  ELSE Slice(ljust(lbl, end - start), 0, end - start)

(***************************************************************************)
(* Input texts: concatenations of at most MaxParts fragments.              *)
(***************************************************************************)
Fragments ==
  { <<"V">>,
    <<"-", "1", "2", "3", "4", "5", "6", "7", "8", "-", "1">>,
    <<"-", "1", "2", "3", "4", "5", "6", "7", "-", "1">>,
    <<"1", "2", "3", ".", "4", "5", "6", ".", "7", "8", "9", "-", "0", "0">>,
    <<"-", "2", "-", "3", "-", "4">> }

RECURSIVE TextsOf(_)
TextsOf(n) ==
  IF n = 0 THEN { << >> }
  ELSE TextsOf(n - 1) \cup { t \o f : t \in TextsOf(n - 1), f \in Fragments }

Texts == TextsOf(MaxParts)

(***************************************************************************)
(* State of one worker running the redactor.                               *)
(***************************************************************************)
VARIABLES
  impl,       \* which variant runs
  label,      \* the label argument
  text,       \* the text argument of the current call
  pc,         \* "idle", "loop" or "done"
  spans,      \* spans / reemplazos: the candidate list (sorted once pc = "loop")
  chars,      \* chars / resultado
  occupied,   \* occupied / ocupado
  i,          \* position of the for loop in spans
  accepted,   \* the spans the loop has replaced so far, in order
  out,        \* the returned string
  pass,       \* 1 for a call on an input text, k + 1 for a call on the k-th output
  order,      \* the order in which the pattern table is iterated
  frames,     \* the local variables of the calls that run side by side
  boot,       \* a process from import to its first calls
  job,        \* a run of a dataset script
  worker      \* a worker process of ds.map: its engines and its batch call

\* what a single call of the redactor neither reads nor writes
env == <<order, frames, boot, job, worker>>

vars == <<impl, label, text, pc, spans, chars, occupied, i, accepted, out, pass,
          order, frames, boot, job, worker>>

\* the pattern table as the collection loop walks it
Orders == {"table", "reversed"}

RECURSIVE Reverse(_)
Reverse(seq) == IF seq = << >> THEN << >> ELSE Reverse(Tail(seq)) \o <<Head(seq)>>

Ordered(patterns, ord) == IF ord = "reversed" THEN Reverse(patterns) ELSE patterns

\* values of the variables of the machines that are not running
NoFrames == << >>
NoBoot == [pc |-> "off"]
NoJob == [pc |-> "off"]
NoWorker == [pc |-> "off"]

Init ==
  /\ impl \in Impls
  /\ label \in LabelsOf(impl)
  /\ text \in Texts
  /\ pc = "idle"
  /\ spans = << >>
  /\ chars = << >>
  /\ occupied = << >>
  /\ i = 1
  /\ accepted = << >>
  /\ out = << >>
  /\ pass = 1
  /\ worker = NoWorker
  /\ order = "table"
  /\ frames = NoFrames
  /\ boot = NoBoot
  /\ job = NoJob

\* variant: the early return hands back an empty string
Call_emptyReturn ==
  /\ pc = "idle"
  /\ LET found == FindAll(Ordered(PatternsOf(impl), order), text, 1)
     IN  IF impl = REPLACE /\ found = << >>
         THEN /\ out' = << >>
              /\ pc' = "done"
              /\ UNCHANGED <<spans, chars, occupied>>
         ELSE /\ spans' = SortSpans(found)
              /\ chars' = text
              /\ occupied' = [j \in 1..Len(text) |-> FALSE]
              /\ pc' = "loop"
              /\ out' = out
  /\ UNCHANGED <<impl, label, text, i, accepted, pass, env>>

\* collection, the early return of replace_identifiers, the sort and the
\* allocation of the two work lists
Call ==
  /\ pc = "idle"
  /\ LET found == FindAll(Ordered(PatternsOf(impl), order), text, 1)
     IN  IF impl = REPLACE /\ found = << >>
         THEN /\ out' = text
              /\ pc' = "done"
              /\ UNCHANGED <<spans, chars, occupied>>
         ELSE /\ spans' = SortSpans(found)
              /\ chars' = text
              /\ occupied' = [j \in 1..Len(text) |-> FALSE]
              /\ pc' = "loop"
              /\ out' = out
  /\ UNCHANGED <<impl, label, text, i, accepted, pass, env>>

\* variant: the span is marked before the overlap test rejects it
Skip_marking ==
  /\ pc = "loop"
  /\ i <= Len(spans)
  /\ AnyOccupied(occupied, spans[i].start, spans[i].end)
  /\ occupied' = MarkOccupied(occupied, spans[i].start, spans[i].end)
  /\ i' = i + 1
  /\ UNCHANGED <<impl, label, text, pc, spans, chars, accepted, out, pass, env>>

\* one iteration whose span touches an occupied position
Skip ==
  /\ pc = "loop"
  /\ i <= Len(spans)
  /\ AnyOccupied(occupied, spans[i].start, spans[i].end)
  /\ i' = i + 1
  /\ UNCHANGED <<impl, label, text, pc, spans, chars, occupied, accepted, out, pass, env>>

\* one iteration whose span is free: replace and mark
Accept ==
  /\ pc = "loop"
  /\ i <= Len(spans)
  /\ ~AnyOccupied(occupied, spans[i].start, spans[i].end)
  /\ chars' = SliceAssign(chars, spans[i].start, spans[i].end,
                          Replacement(impl, label, spans[i].start, spans[i].end))
  /\ occupied' = MarkOccupied(occupied, spans[i].start, spans[i].end)
  /\ accepted' = Append(accepted, spans[i])
  /\ i' = i + 1
  /\ UNCHANGED <<impl, label, text, pc, spans, out, pass, env>>

\* return "".join(chars)
Return ==
  /\ pc = "loop"
  /\ i > Len(spans)
  /\ out' = chars
  /\ pc' = "done"
  /\ UNCHANGED <<impl, label, text, spans, chars, occupied, i, accepted, pass, env>>

\* the caller runs the redactor again on the text it got back
Resubmit ==
  /\ pc = "done"
  /\ pass < MaxPasses
  /\ text' = out
  /\ pass' = pass + 1
  /\ pc' = "idle"
  /\ spans' = << >>
  /\ chars' = << >>
  /\ occupied' = << >>
  /\ i' = 1
  /\ accepted' = << >>
  /\ out' = << >>
  /\ UNCHANGED <<impl, label, env>>

Next == Call \/ Skip \/ Accept \/ Return \/ Resubmit

Spec == Init /\ [][Next]_vars

(***************************************************************************)
(* The redactor as a function of its arguments: what one call returns.     *)
(***************************************************************************)
\* the for loop over the sorted spans, from its k-th iteration on
RECURSIVE Loop(_, _, _, _, _, _)
Loop(im, lbl, sorted, k, chs, occ) ==
  IF k > Len(sorted) THEN chs
  ELSE IF AnyOccupied(occ, sorted[k].start, sorted[k].end)
       THEN Loop(im, lbl, sorted, k + 1, chs, occ)
       ELSE Loop(im, lbl, sorted, k + 1,
                 SliceAssign(chs, sorted[k].start, sorted[k].end,
                             Replacement(im, lbl, sorted[k].start, sorted[k].end)),
                 MarkOccupied(occ, sorted[k].start, sorted[k].end))

\* the body of the function once the candidate list cands is collected
RedactSpans(im, lbl, t, cands) ==
  IF im = REPLACE /\ cands = << >> THEN t
  ELSE Loop(im, lbl, SortSpans(cands), 1, t, [j \in 1..Len(t) |-> FALSE])

\* the whole function, the table read in dictionary order
Redact(im, lbl, t) == RedactSpans(im, lbl, t, FindAll(PatternsOf(im), t, 1))

(***************************************************************************)
(* Calls whose pattern table is iterated in either order.                  *)
(***************************************************************************)
MaxOrderParts == 2     \* fragments per text when the table order varies

InitOrder ==
  /\ impl \in Impls
  /\ label \in LabelsOf(impl)
  /\ text \in TextsOf(MaxOrderParts)
  /\ order \in Orders
  /\ pc = "idle"
  /\ spans = << >>
  /\ chars = << >>
  /\ occupied = << >>
  /\ i = 1
  /\ accepted = << >>
  /\ out = << >>
  /\ pass = 1
  /\ worker = NoWorker
  /\ frames = NoFrames
  /\ boot = NoBoot
  /\ job = NoJob

SpecOrder == InitOrder /\ [][Next]_vars

(***************************************************************************)
(* Calls on sentences of the demonstration dataset.                        *)
(***************************************************************************)
DemoTexts ==
  {
    <<"M", "i", " ", "R", "U", "T", " ", "e", "s", " ", "1", "2", ".", "3",
      "4", "5", ".", "6", "7", "8", "-", "9">>,
    <<"C", "é", "d", "u", "l", "a", " ", "V", "e", "n", "e", "z", "u", "e",
      "l", "a", ":", " ", "V", "-", "1", "2", "3", "4", "5", "6", "7", "8">>,
    <<"I", "d", "e", "n", "t", "i", "f", "i", "c", "a", "d", "o", "r", ":",
      " ", "2", "0", "-", "1", "2", "3", "4", "5", "6", "7", "8", "-", "1">>,
    <<"R", "U", "C", " ", "P", "a", "n", "a", "m", "á", ":", " ", "P", "-",
      "1", "2", "3", "-", "4", "5", "6", "-", "7", "8", "9">>,
    <<"E", "l", " ", "p", "r", "e", "c", "i", "o", " ", "e", "s", " ", "1",
      "0", ".", "0", "0", "0", " ", "p", "e", "s", "o", "s", ".">>,
    <<"H", "o", "y", " ", "e", "s", " ", "1", "2", "-", "0", "5", "-", "2",
      "0", "2", "5", ",", " ", "t", "e", "m", "p", "e", "r", "a", "t", "u",
      "r", "a", " ", "2", "2", ".", "5", "°", "C", ".">>,
    <<"E", "s", "t", "o", " ", "n", "o", " ", "t", "i", "e", "n", "e", " ",
      "n", "a", "d", "a">>,
    <<"F", "e", "c", "h", "a", " ", "d", "e", " ", "e", "m", "i", "s", "i",
      "ó", "n", ":", " ", "1", "0", "-", "1", "0", "-", "2", "0", "2", "2">>,
    <<"1", "2", "-", "1", "2", "-", "1", "2", "1", "2", " ", "e", "s", " ",
      "u", "n", "a", " ", "f", "e", "c", "h", "a", " ", "e", "s", "p", "e",
      "l", "u", "z", "n", "a", "n", "t", "e">>,
    <<"D", "o", "c", "u", "m", "e", "n", "t", "o", ":", " ", "2", "0", "2",
      "3", "-", "0", "5", "-", "1", "7">>,
    <<"N", "o", "t", "a", " ", "d", "e", " ", "d", "é", "b", "i", "t", "o",
      " ", "1", "2", "3", "4", "5", "6", "7", "8", "-", "9">> }

InitDemo ==
  /\ impl \in Impls
  /\ label \in LabelsOf(impl)
  /\ text \in DemoTexts
  /\ order = "table"
  /\ pc = "idle"
  /\ spans = << >>
  /\ chars = << >>
  /\ occupied = << >>
  /\ i = 1
  /\ accepted = << >>
  /\ out = << >>
  /\ pass = 1
  /\ worker = NoWorker
  /\ frames = NoFrames
  /\ boot = NoBoot
  /\ job = NoJob

SpecDemo == InitDemo /\ [][Next]_vars

(***************************************************************************)
(* Calls of replace_identifiers running side by side, as the workers of    *)
(* ds.map run them: PATTERNS is one module-level list, the work lists are   *)
(* names of the frame of each call.                                        *)
(***************************************************************************)
MaxCalls == 2     \* calls in flight at once

CallIds == 1..MaxCalls

\* the texts handed to the concurrent calls
ConcTexts ==
  { <<"V">>,
    <<"V", "-", "1", "2", "3", "4", "5", "6", "7", "8", "-", "1">>,
    <<"1", "2", "3", ".", "4", "5", "6", ".", "7", "8", "9", "-", "0", "0">>,
    <<"-", "1", "2", "3", "4", "5", "6", "7", "-", "1",
      "-", "1", "2", "3", "4", "5", "6", "7", "-", "1">> }

\* variant: spans, chars and occupied are module-level names
Locals_shared(c) == 1

\* the frame that holds spans, chars and occupied of call c
Locals(c) == c

NoLocals == [spans |-> << >>, chars |-> << >>, occupied |-> << >>, i |-> 1]

InitConc ==
  /\ impl = REPLACE
  /\ label = DefaultLabel
  /\ text = << >>
  /\ pc = "idle"
  /\ spans = << >>
  /\ chars = << >>
  /\ occupied = << >>
  /\ i = 1
  /\ accepted = << >>
  /\ out = << >>
  /\ pass = 1
  /\ worker = NoWorker
  /\ order = "table"
  /\ boot = NoBoot
  /\ job = NoJob
  /\ \E texts \in [CallIds -> ConcTexts] :
       frames = [catalog |-> RAW_PATTERNS,
                 calls |-> [c \in CallIds |->
                              [text |-> texts[c], pc |-> "idle", out |-> << >>]],
                 locals |-> [c \in CallIds |-> NoLocals]]

redactor == <<impl, label, text, pc, spans, chars, occupied, i, accepted, out, pass>>

\* call c: collection, early return, sort, allocation of the work lists
ConcCall(c) ==
  /\ frames.calls[c].pc = "idle"
  /\ LET t == frames.calls[c].text
         found == FindAll(frames.catalog, t, 1)
     IN  IF found = << >>
         THEN frames' = [frames EXCEPT !.calls[c].out = t, !.calls[c].pc = "done"]
         ELSE frames' = [frames EXCEPT
                           !.calls[c].pc = "loop",
                           !.locals[Locals(c)] =
                              [spans |-> SortSpans(found),
                               chars |-> t,
                               occupied |-> [j \in 1..Len(t) |-> FALSE],
                               i |-> 1]]
  /\ UNCHANGED <<redactor, order, boot, job, worker>>

\* call c: one iteration whose span touches an occupied position
ConcSkip(c) ==
  /\ frames.calls[c].pc = "loop"
  /\ LET l == frames.locals[Locals(c)]
     IN  /\ l.i <= Len(l.spans)
         /\ AnyOccupied(l.occupied, l.spans[l.i].start, l.spans[l.i].end)
         /\ frames' = [frames EXCEPT !.locals[Locals(c)].i = l.i + 1]
  /\ UNCHANGED <<redactor, order, boot, job, worker>>

\* call c: one iteration whose span is free
ConcAccept(c) ==
  /\ frames.calls[c].pc = "loop"
  /\ LET l == frames.locals[Locals(c)]
     IN  /\ l.i <= Len(l.spans)
         /\ ~AnyOccupied(l.occupied, l.spans[l.i].start, l.spans[l.i].end)
         /\ frames' = [frames EXCEPT
                         !.locals[Locals(c)] =
                            [spans |-> l.spans,
                             chars |-> SliceAssign(l.chars, l.spans[l.i].start,
                                                   l.spans[l.i].end,
                                                   Replacement(impl, label,
                                                               l.spans[l.i].start,
                                                               l.spans[l.i].end)),
                             occupied |-> MarkOccupied(l.occupied,
                                                       l.spans[l.i].start,
                                                       l.spans[l.i].end),
                             i |-> l.i + 1]]
  /\ UNCHANGED <<redactor, order, boot, job, worker>>

\* call c: return "".join(chars)
ConcReturn(c) ==
  /\ frames.calls[c].pc = "loop"
  /\ LET l == frames.locals[Locals(c)]
     IN  /\ l.i > Len(l.spans)
         /\ frames' = [frames EXCEPT !.calls[c].out = l.chars,
                                      !.calls[c].pc = "done"]
  /\ UNCHANGED <<redactor, order, boot, job, worker>>

NextConc ==
  \E c \in CallIds : ConcCall(c) \/ ConcSkip(c) \/ ConcAccept(c) \/ ConcReturn(c)

SpecConc == InitConc /\ [][NextConc]_vars

(***************************************************************************)
(* A process from the import of the module to its first calls, over a      *)
(* table one of whose source strings may be malformed.  filter_ID.py and   *)
(* full_anon.py compile the whole table when the module is imported;       *)
(* dataset_filter_ID.py and text_filter_ID.py keep the strings and hand    *)
(* each one to re.finditer, which compiles it, inside the collection loop. *)
(***************************************************************************)
MaxServed == 2     \* calls a process serves

\* the position of the malformed source string in the table, 0 for none
BadPositions(im) == 0..Len(PatternsOf(im))

InitBoot ==
  /\ impl \in Impls
  /\ label = DefaultLabel
  /\ text = << >>
  /\ pc = "idle"
  /\ spans = << >>
  /\ chars = << >>
  /\ occupied = << >>
  /\ i = 1
  /\ accepted = << >>
  /\ out = << >>
  /\ pass = 1
  /\ worker = NoWorker
  /\ order = "table"
  /\ frames = NoFrames
  /\ job = NoJob
  /\ \E b \in BadPositions(impl) :
       boot = [pc |-> "import", bad |-> b, k |-> 1, served |-> 0, failedIn |-> "none"]

\* re.compile(p) / re.finditer(p, ...) on the k-th source string raises
Raises(k) == boot.bad = k

\* the module-level statements: PATTERNS = [re.compile(p, ...) for p in ...]
\* in replace_identifiers' modules, a dict of strings in the other ones
Import ==
  /\ boot.pc = "import"
  /\ IF impl = REPLACE /\ boot.bad # 0
     THEN boot' = [boot EXCEPT !.pc = "failed", !.failedIn = "construction"]
     ELSE boot' = [boot EXCEPT !.pc = "ready"]
  /\ UNCHANGED <<redactor, order, frames, job, worker>>

\* a caller enters the function
BeginCall ==
  /\ boot.pc = "ready"
  /\ boot.served < MaxServed
  /\ boot' = [boot EXCEPT !.pc = "collect", !.k = 1]
  /\ UNCHANGED <<redactor, order, frames, job, worker>>

\* one round of the collection loop: pat.finditer(text) on a compiled
\* pattern, or re.finditer(patron, texto), which compiles patron first
Collect ==
  /\ boot.pc = "collect"
  /\ boot.k <= Len(PatternsOf(impl))
  /\ IF impl = REEMPLAZAR /\ Raises(boot.k)
     THEN boot' = [boot EXCEPT !.pc = "failed", !.failedIn = "call"]
     ELSE boot' = [boot EXCEPT !.k = boot.k + 1]
  /\ UNCHANGED <<redactor, order, frames, job, worker>>

\* the rest of the function: the call returns its output
EndCall ==
  /\ boot.pc = "collect"
  /\ boot.k > Len(PatternsOf(impl))
  /\ boot' = [boot EXCEPT !.pc = "ready", !.served = boot.served + 1]
  /\ UNCHANGED <<redactor, order, frames, job, worker>>

NextBoot == Import \/ BeginCall \/ Collect \/ EndCall

SpecBoot == InitBoot /\ [][NextBoot]_vars

(***************************************************************************)
(* A run of one of the dataset scripts: the main of dataset_filter_ID.py,  *)
(* the main of filter_ID.py, and process_batch of full_anon.py under       *)
(* ds.map.  A record has the text column and one more column.              *)
(***************************************************************************)
MaxRows == 2     \* records of a dataset

\* --max_text_len of the run
max_text_len == 10

Layers == {"dataset_filter_ID", "filter_ID", "full_anon"}

\* the redactor a script calls
ImplOf(layer) == IF layer = "dataset_filter_ID" THEN REEMPLAZAR ELSE REPLACE

\* a cell of the text column: a str, or None
Str(s) == [isStr |-> TRUE, str |-> s]
None == [isStr |-> FALSE, str |-> << >>]

JobValues ==
  { None,
    Str(<<"V">>),
    Str(<<"V", "-", "1", "2", "3", "4", "5", "6", "7", "8">>),
    Str(<<"V", "-", "1", "2", "3", "4", "5", "6", "7", "8", "-", "1">>) }

\* the values of the other column
Others == {"x", "y"}

JobRows == [text : JobValues, other : Others]

RECURSIVE SeqsUpTo(_, _)
SeqsUpTo(S, n) ==
  IF n = 0 THEN { << >> }
  ELSE SeqsUpTo(S, n - 1)
       \cup { Append(q, x) : q \in { r \in SeqsUpTo(S, n - 1) : Len(r) = n - 1 }, x \in S }

\* isinstance(t, str) and len(t) <= max_len
Valid(v) == v.isStr /\ Len(v.str) <= max_text_len

\* what anonymizer.anonymize(...).text can be for a valid text: the text
\* itself when nothing was detected, else the text with the detected digits
\* replaced by the tag of the entity
PhoneTag == <<"<", "P", "H", "O", "N", "E", "_", "N", "U", "M", "B", "E", "R", ">">>

Anonymized(v) ==
  IF \E p \in 1..Len(v.str) : v.str[p] \in Digit
  THEN {v, Str(<<v.str[1], v.str[2]>> \o PhoneTag)}
  ELSE {v}

InitJob ==
  /\ label = DefaultLabel
  /\ text = << >>
  /\ pc = "idle"
  /\ spans = << >>
  /\ chars = << >>
  /\ occupied = << >>
  /\ i = 1
  /\ accepted = << >>
  /\ out = << >>
  /\ pass = 1
  /\ worker = NoWorker
  /\ order = "table"
  /\ frames = NoFrames
  /\ boot = NoBoot
  /\ \E layer \in Layers : \E rows \in SeqsUpTo(JobRows, MaxRows) \ { << >> } :
       /\ impl = ImplOf(layer)
       /\ job = [pc |-> "run", layer |-> layer, rows |-> rows, k |-> 1,
                 calls |-> << >>, new |-> << >>, written |-> << >>]

\* the redactor is called on arg: a TypeError of finditer ends the run when
\* arg is not a str, else the returned text is appended
CallRedactor(arg) ==
  IF arg.isStr
  THEN job' = [job EXCEPT !.calls = Append(job.calls, arg),
                          !.new = Append(job.new, Redact(impl, label, arg.str)),
                          !.k = job.k + 1]
  ELSE job' = [job EXCEPT !.calls = Append(job.calls, arg),
                          !.pc = "crashed"]

\* dataset_filter_ID.py: textos_modificados.append(reemplazar_identificadores(texto))
\* filter_ID.py: lambda ex: {args.column: replace_identifiers(ex[args.column])}
MapRow ==
  /\ job.pc = "run"
  /\ job.layer \in {"dataset_filter_ID", "filter_ID"}
  /\ job.k <= Len(job.rows)
  /\ CallRedactor(job.rows[job.k].text)
  /\ UNCHANGED <<redactor, order, frames, boot, worker>>

\* full_anon.py: one round of the loop of process_batch over texts
ProcessBatchRow ==
  /\ job.pc = "run"
  /\ job.layer = "full_anon"
  /\ job.k <= Len(job.rows)
  /\ LET t == job.rows[job.k].text
     IN  IF Valid(t)
         THEN \E pii_clean \in Anonymized(t) : CallRedactor(pii_clean)
         ELSE CallRedactor(t)
  /\ UNCHANGED <<redactor, order, frames, boot, worker>>

\* dataset_filter_ID.py: Dataset.from_dict({args.column: textos_modificados})
\* and save_to_disk
SaveFromDict ==
  /\ job.pc = "run"
  /\ job.layer = "dataset_filter_ID"
  /\ job.k > Len(job.rows)
  /\ job' = [job EXCEPT !.pc = "saved",
                         !.written = [j \in 1..Len(job.new) |-> [text |-> Str(job.new[j])]]]
  /\ UNCHANGED <<redactor, order, frames, boot, worker>>

\* filter_ID.py and full_anon.py: ds.map writes the returned column over the
\* column of the record and keeps the other ones; save_to_disk
SaveMapped ==
  /\ job.pc = "run"
  /\ job.layer \in {"filter_ID", "full_anon"}
  /\ job.k > Len(job.rows)
  /\ job' = [job EXCEPT !.pc = "saved",
                         !.written = [j \in 1..Len(job.rows) |->
                                        [job.rows[j] EXCEPT !.text = Str(job.new[j])]]]
  /\ UNCHANGED <<redactor, order, frames, boot, worker>>

NextJob == MapRow \/ ProcessBatchRow \/ SaveFromDict \/ SaveMapped

SpecJob == InitJob /\ [][NextJob]_vars

(***************************************************************************)
(* A worker process of ds.map serving batch calls: process_batch of        *)
(* full_anon.py or _anonymize_batch of filter_presidio.py, each of which   *)
(* begins by the lazy construction of the two Presidio engines.            *)
(***************************************************************************)
MaxBatches == 2      \* batch calls a worker serves
MaxBatchLen == 2     \* texts of a batch
MaxFailures == 1     \* constructor calls that raise

BatchFns == {"process_batch", "_anonymize_batch"}

\* the batches handed to the function: examples[col]
Batches == SeqsUpTo(JobValues, MaxBatchLen) \ { << >> }

\* an engine global before its construction
NoEngine == 0

\* the indices of the true entries of mask, in order
RECURSIVE TrueIndices(_, _)
TrueIndices(mask, k) ==
  IF k > Len(mask) THEN << >>
  ELSE (IF mask[k] THEN <<k>> ELSE << >>) \o TrueIndices(mask, k + 1)

\* what the analyzer can return for a text: no detection, or, for a text
\* with digits, a detection; each result is tagged with the place of its
\* text in valid_texts
HasDigit(v) == \E p \in 1..Len(v.str) : v.str[p] \in Digit

Detections(valid_texts) ==
  { [j \in 1..Len(valid_texts) |-> [pos |-> j, text |-> valid_texts[j], hit |-> hits[j]]] :
      hits \in { h \in [1..Len(valid_texts) -> BOOLEAN] :
                   \A j \in 1..Len(valid_texts) : h[j] => HasDigit(valid_texts[j]) } }

\* anonymizer.anonymize(text=t, analyzer_results=res).text
AnonymizeWith(t, res) ==
  IF res.hit /\ Len(t.str) >= 2 THEN Str(<<t.str[1], t.str[2]>> \o PhoneTag) ELSE t

\* variant: idx is not advanced
NextIdx_stuck(idx) == idx

\* idx += 1
NextIdx(idx) == idx + 1

\* variant: the identifier pass reads the text of the batch
RedactorArg_raw(t, pii_clean) == t

\* replace_identifiers(pii_clean)
RedactorArg(t, pii_clean) == pii_clean

\* variant: the test is skipped and the engines are built in every call
NeedsInit_always(w) == TRUE

\* if _ANALYZER is None
NeedsInit(w) == w.analyzer = NoEngine

\* variant: len(t) <= max_len is not tested
ValidMask_anyLength(texts) == [k \in 1..Len(texts) |-> texts[k].isStr]

\* valid_mask = [isinstance(t, str) and len(t) <= max_len for t in texts]
ValidMask(texts) == [k \in 1..Len(texts) |-> Valid(texts[k])]

NoBatch ==
  [texts |-> << >>, valid_mask |-> << >>, valid_texts |-> << >>,
   detections |-> << >>, idx |-> 0, k |-> 1, new_texts |-> << >>,
   log |-> << >>, error |-> "none"]

InitWorker ==
  /\ impl = REPLACE
  /\ label = DefaultLabel
  /\ text = << >>
  /\ pc = "idle"
  /\ spans = << >>
  /\ chars = << >>
  /\ occupied = << >>
  /\ i = 1
  /\ accepted = << >>
  /\ out = << >>
  /\ pass = 1
  /\ order = "table"
  /\ frames = NoFrames
  /\ boot = NoBoot
  /\ job = NoJob
  /\ \E fn \in BatchFns :
       worker = [pc |-> "idle", fn |-> fn, analyzer |-> NoEngine,
                 anonymizer |-> NoEngine, analyzersBuilt |-> 0,
                 anonymizersBuilt |-> 0, failures |-> 0, served |-> 0,
                 batch |-> NoBatch]

others == <<redactor, order, frames, boot, job>>

\* ds.map calls the batch function with the next batch
BeginBatch ==
  /\ worker.pc \in {"idle", "returned", "raised"}
  /\ worker.served < MaxBatches
  /\ \E texts \in Batches :
       worker' = [worker EXCEPT !.pc = "ensure",
                                !.served = worker.served + 1,
                                !.batch = [NoBatch EXCEPT !.texts = texts]]
  /\ UNCHANGED others

\* ensure_presidio() / _ensure_engines(): the constructors run in turn when
\* the analyzer global is None, and either of them can raise
EnsureEngines ==
  /\ worker.pc = "ensure"
  /\ IF NeedsInit(worker)
     THEN \/ /\ worker.failures < MaxFailures
             /\ worker' = [worker EXCEPT !.pc = "raised",
                                         !.failures = worker.failures + 1,
                                         !.batch.error = "AnalyzerEngine"]
          \/ /\ worker.failures < MaxFailures
             /\ worker' = [worker EXCEPT !.pc = "raised",
                                         !.failures = worker.failures + 1,
                                         !.analyzer = worker.analyzersBuilt + 1,
                                         !.analyzersBuilt = worker.analyzersBuilt + 1,
                                         !.batch.error = "AnonymizerEngine"]
          \/ worker' = [worker EXCEPT !.pc = "analyze",
                                      !.analyzer = worker.analyzersBuilt + 1,
                                      !.analyzersBuilt = worker.analyzersBuilt + 1,
                                      !.anonymizer = worker.anonymizersBuilt + 1,
                                      !.anonymizersBuilt = worker.anonymizersBuilt + 1]
     ELSE worker' = [worker EXCEPT !.pc = "analyze"]
  /\ UNCHANGED others

\* valid_mask, valid_texts and the detections of the valid texts
Analyze ==
  /\ worker.pc = "analyze"
  /\ LET texts == worker.batch.texts
         mask == ValidMask(texts)
         idxs == TrueIndices(mask, 1)
         valid == [j \in 1..Len(idxs) |-> texts[idxs[j]]]
     IN  \E results \in Detections(valid) :
           worker' = [worker EXCEPT
                        !.pc = "loop",
                        !.batch.valid_mask = mask,
                        !.batch.valid_texts = valid,
                        !.batch.detections = results,
                        !.batch.log = [j \in 1..Len(valid) |->
                                         [op |-> "analyze", k |-> 0, arg |-> valid[j],
                                          res |-> results[j], out |-> valid[j]]]]
  /\ UNCHANGED others

\* the call ends with the exception named by err
Raise(err) == worker' = [worker EXCEPT !.pc = "raised", !.batch.error = err]

\* process_batch: one round of for t, ok in zip(texts, valid_mask)
ProcessBatchLoop ==
  /\ worker.pc = "loop"
  /\ worker.fn = "process_batch"
  /\ worker.batch.k <= Len(worker.batch.texts)
  /\ LET b == worker.batch
         t == b.texts[b.k]
         ok == b.valid_mask[b.k]
     IN  IF ok /\ b.idx >= Len(b.detections) THEN Raise("IndexError")
         ELSE IF ok /\ worker.anonymizer = NoEngine THEN Raise("AttributeError")
         ELSE LET res == IF ok THEN b.detections[b.idx + 1] ELSE [pos |-> 0, text |-> t, hit |-> FALSE]
                  pii_clean == IF ok THEN AnonymizeWith(t, res) ELSE t
                  arg == RedactorArg(t, pii_clean)
                  pii_log == IF ok
                             THEN <<[op |-> "anonymize", k |-> b.k, arg |-> t,
                                     res |-> res, out |-> pii_clean]>>
                             ELSE << >>
              IN  IF ~arg.isStr
                  THEN worker' = [worker EXCEPT
                                    !.pc = "raised",
                                    !.batch.error = "TypeError",
                                    !.batch.log = b.log \o pii_log \o
                                       <<[op |-> "redact", k |-> b.k, arg |-> arg,
                                          res |-> res, out |-> arg]>>]
                  ELSE LET final_text == Str(Redact(REPLACE, DefaultLabel, arg.str))
                       IN  worker' = [worker EXCEPT
                                        !.batch.idx = IF ok THEN NextIdx(b.idx) ELSE b.idx,
                                        !.batch.k = b.k + 1,
                                        !.batch.new_texts = Append(b.new_texts, final_text),
                                        !.batch.log = b.log \o pii_log \o
                                           <<[op |-> "redact", k |-> b.k, arg |-> arg,
                                              res |-> res, out |-> final_text]>>]
  /\ UNCHANGED others

\* _anonymize_batch: one round of for t, ok in zip(texts, valid_mask)
AnonymizeBatchLoop ==
  /\ worker.pc = "loop"
  /\ worker.fn = "_anonymize_batch"
  /\ worker.batch.k <= Len(worker.batch.texts)
  /\ LET b == worker.batch
         t == b.texts[b.k]
         ok == b.valid_mask[b.k]
     IN  IF ~ok
         THEN worker' = [worker EXCEPT !.batch.k = b.k + 1,
                                       !.batch.new_texts = Append(b.new_texts, t)]
         ELSE IF b.idx >= Len(b.detections) THEN Raise("IndexError")
         ELSE LET res == b.detections[b.idx + 1]
              IN  IF ~res.hit
                  THEN worker' = [worker EXCEPT !.batch.idx = NextIdx(b.idx),
                                                !.batch.k = b.k + 1,
                                                !.batch.new_texts = Append(b.new_texts, t)]
                  ELSE IF worker.anonymizer = NoEngine THEN Raise("AttributeError")
                  ELSE worker' = [worker EXCEPT
                                    !.batch.idx = NextIdx(b.idx),
                                    !.batch.k = b.k + 1,
                                    !.batch.new_texts =
                                       Append(b.new_texts, AnonymizeWith(t, res)),
                                    !.batch.log = Append(b.log,
                                       [op |-> "anonymize", k |-> b.k, arg |-> t,
                                        res |-> res, out |-> AnonymizeWith(t, res)])]
  /\ UNCHANGED others

\* examples[col] = new_texts; return examples
ReturnBatch ==
  /\ worker.pc = "loop"
  /\ worker.batch.k > Len(worker.batch.texts)
  /\ worker' = [worker EXCEPT !.pc = "returned"]
  /\ UNCHANGED others

NextWorker ==
  BeginBatch \/ EnsureEngines \/ Analyze \/ ProcessBatchLoop \/ AnonymizeBatchLoop
    \/ ReturnBatch

SpecWorker == InitWorker /\ [][NextWorker]_vars

(***************************************************************************)
(* Vocabulary of the properties.                                           *)
(***************************************************************************)
Candidates == { spans[k] : k \in 1..Len(spans) }
AcceptedSet == { accepted[k] : k \in 1..Len(accepted) }

\* two spans share a position
Overlap(a, b) == a.start < b.end /\ b.start < a.end

\* a strictly contains the range of b
StrictlyContains(a, b) == a.start <= b.start /\ b.end <= a.end /\ a # b

SameLength(a, b) == a.end - a.start = b.end - b.start

\* c comes before a in the selection order: longer, or as long and further left
Precedes(c, a) ==
  \/ c.end - c.start > a.end - a.start
  \/ SameLength(c, a) /\ c.start < a.start

\* a was rejected because of a span accepted before it
BlockedByEarlier(a) ==
  \E c \in AcceptedSet : Precedes(c, a) /\ Overlap(c, a)

\* offset p of the input lies inside an accepted span
Covered(p) == \E a \in AcceptedSet : a.start <= p /\ p < a.end

\* the placeholder p cut or padded with blanks to exactly w characters
ExpectedFill(p, w) == [j \in 1..w |-> IF j <= Len(p) THEN p[j] ELSE " "]

\* no pattern of the table has a match anywhere in t
NoMatch(patterns, t) ==
  \A k \in 1..Len(patterns) : \A pos \in 0..Len(t) : MatchAt(patterns[k], t, pos) = -1

(***************************************************************************)
(* C1  Length invariance: the returned string has exactly as many          *)
(* characters as the input text.  Stated as claimed; replace_identifiers   *)
(* breaks it when the label is longer than an accepted span.               *)
(***************************************************************************)
C1_LengthInvariance == pc = "done" => Len(out) = Len(text)

(***************************************************************************)
(* C2  Frame: every offset of the input outside all accepted spans holds   *)
(* the same character in the output.  Stated as claimed; it falls with C1  *)
(* once replace_identifiers has lengthened the buffer.                     *)
(***************************************************************************)
C2_Frame ==
  pc = "done" =>
    \A p \in 0..(Len(text) - 1) :
      ~Covered(p) => p < Len(out) /\ At(out, p) = At(text, p)

(***************************************************************************)
(* C3  Non-overlap: no two accepted spans of one call share a position.    *)
(***************************************************************************)
C3_NonOverlap ==
  \A j, k \in 1..Len(accepted) : j # k => ~Overlap(accepted[j], accepted[k])

\* a finished call that accepted two spans and rejected a candidate
C3_Witness ==
  /\ pc = "done"
  /\ Len(accepted) >= 2
  /\ \E c \in Candidates : c \notin AcceptedSet

(***************************************************************************)
(* C4  Idempotence: redacting the output of a call with the default label  *)
(* again returns that output unchanged.  Stated as claimed; the code       *)
(* redacts on the second pass a match that the first pass did not see.     *)
(***************************************************************************)
C4_Idempotence ==
  (pc = "done" /\ pass = 2 /\ label = DefaultLabel) => out = text

(***************************************************************************)
(* C5  Identity on no-match: when no pattern matches anywhere in the text  *)
(* (the empty text included) the call returns the text itself.             *)
(***************************************************************************)
C5_IdentityOnNoMatch ==
  (pc = "done" /\ NoMatch(PatternsOf(impl), text)) => out = text

\* a finished call on a non-empty text that no pattern matches, and one on
\* the empty text, are both reached: the first is the witness
C5_Witness ==
  /\ pc = "done"
  /\ text # << >>
  /\ NoMatch(PatternsOf(impl), text)
  /\ out = text

(***************************************************************************)
(* C6  Longest-match preference as claimed: of two candidates A, B with A  *)
(* strictly containing B, A is accepted and B rejected, whatever else is   *)
(* in the candidate list.                                                  *)
(***************************************************************************)
C6_LongestAlways ==
  pc = "done" =>
    \A a, b \in Candidates :
      StrictlyContains(a, b) => a \in AcceptedSet /\ b \notin AcceptedSet

(***************************************************************************)
(* C6 amended: of two candidates A, B with A strictly containing B, B is   *)
(* rejected whenever A is accepted, and A is accepted unless it overlaps   *)
(* an accepted span that precedes it in the order.                         *)
(***************************************************************************)
C6_LongestUnlessBlocked ==
  pc = "done" =>
    \A a, b \in Candidates :
      StrictlyContains(a, b) =>
        /\ a \in AcceptedSet => b \notin AcceptedSet
        /\ a \notin AcceptedSet => BlockedByEarlier(a)

\* a finished call where the containing span won, and the contained one lost
C6_Witness ==
  /\ pc = "done"
  /\ \E a, b \in Candidates :
       StrictlyContains(a, b) /\ a \in AcceptedSet /\ b \notin AcceptedSet

(***************************************************************************)
(* C7  Tie-break on overlap as claimed: of two overlapping candidates of   *)
(* equal length, the one starting further left is accepted and the other   *)
(* rejected, whatever else is in the candidate list.                       *)
(***************************************************************************)
C7_LeftmostAlways ==
  pc = "done" =>
    \A a, b \in Candidates :
      (SameLength(a, b) /\ a.start < b.start /\ Overlap(a, b)) =>
        a \in AcceptedSet /\ b \notin AcceptedSet

(***************************************************************************)
(* C7 amended: of two overlapping candidates of equal length, the one      *)
(* starting further right is rejected whenever the left one is accepted,   *)
(* and the left one is accepted unless it overlaps an accepted span that   *)
(* precedes it in the order.                                               *)
(***************************************************************************)
C7_LeftmostUnlessBlocked ==
  pc = "done" =>
    \A a, b \in Candidates :
      (SameLength(a, b) /\ a.start < b.start /\ Overlap(a, b)) =>
        /\ a \in AcceptedSet => b \notin AcceptedSet
        /\ a \notin AcceptedSet => BlockedByEarlier(a)

\* a finished call where the left one of two equal-length overlapping spans won
C7_Witness ==
  /\ pc = "done"
  /\ \E a, b \in Candidates :
       /\ SameLength(a, b) /\ a.start < b.start /\ Overlap(a, b)
       /\ a \in AcceptedSet /\ b \notin AcceptedSet

(***************************************************************************)
(* C8  Tie-break without overlap as claimed: two candidates of equal       *)
(* length at different starts that do not overlap are both accepted.       *)
(***************************************************************************)
C8_BothAlways ==
  pc = "done" =>
    \A a, b \in Candidates :
      (SameLength(a, b) /\ a.start # b.start /\ ~Overlap(a, b)) =>
        a \in AcceptedSet /\ b \in AcceptedSet

(***************************************************************************)
(* C8 amended: of two candidates of equal length at different starts that  *)
(* do not overlap, each one is accepted unless it overlaps an accepted     *)
(* span that precedes it in the order.                                     *)
(***************************************************************************)
C8_BothUnlessBlocked ==
  pc = "done" =>
    \A a, b \in Candidates :
      (SameLength(a, b) /\ a.start # b.start /\ ~Overlap(a, b)) =>
        /\ a \notin AcceptedSet => BlockedByEarlier(a)
        /\ b \notin AcceptedSet => BlockedByEarlier(b)

\* a finished call that accepted two disjoint candidates of equal length
C8_Witness ==
  /\ pc = "done"
  /\ \E a, b \in Candidates :
       /\ SameLength(a, b) /\ a.start # b.start /\ ~Overlap(a, b)
       /\ a \in AcceptedSet /\ b \in AcceptedSet

(***************************************************************************)
(* C9  Placeholder fill: the iteration that accepts a span [start, end)    *)
(* writes exactly end - start characters, the label followed by blanks or  *)
(* the first end - start characters of the label.  Stated as claimed;      *)
(* replace_identifiers writes the whole label when it is the longer one.   *)
(***************************************************************************)
C9_PlaceholderFill ==
  [][ (pc = "loop" /\ accepted' # accepted) =>
        /\ Len(chars') = Len(chars)
        /\ Slice(chars', spans[i].start, spans[i].end)
             = ExpectedFill(label, spans[i].end - spans[i].start) ]_vars

(***************************************************************************)
(* C10  Reject-on-any-overlap: an iteration whose span shares a position   *)
(* with an accepted span rewrites no character, marks no position and      *)
(* accepts nothing.                                                        *)
(***************************************************************************)
C10_RejectOnAnyOverlap ==
  [][ ( /\ pc = "loop"
        /\ i <= Len(spans)
        /\ \E a \in AcceptedSet : Overlap(a, spans[i]) ) =>
        /\ chars' = chars
        /\ occupied' = occupied
        /\ accepted' = accepted ]_vars

\* the loop has just passed over a candidate that overlaps an accepted span
\* and has a position no accepted span covers, and left that position alone
C10_Witness ==
  /\ pc = "loop"
  /\ i > 1
  /\ spans[i - 1] \notin AcceptedSet
  /\ \E a \in AcceptedSet : Overlap(a, spans[i - 1])
  /\ \E p \in spans[i - 1].start..(spans[i - 1].end - 1) :
       ~Covered(p) /\ ~occupied[p + 1] /\ At(chars, p) = At(text, p)

\* how often x occurs in seq
Count(seq, x) == Cardinality({ k \in 1..Len(seq) : seq[k] = x })

\* seq without the repetitions of its elements
RECURSIVE Dedup(_)
Dedup(seq) ==
  IF seq = << >> THEN << >>
  ELSE LET rest == Dedup(SubSeq(seq, 1, Len(seq) - 1))
       IN  IF Count(rest, seq[Len(seq)]) > 0 THEN rest
           ELSE Append(rest, seq[Len(seq)])

(***************************************************************************)
(* C11  Order independence: a call that iterates the pattern table in      *)
(* another order returns what the call iterating it in dictionary order    *)
(* returns for the same text and label.                                    *)
(***************************************************************************)
C11_OrderIndependent ==
  pc = "done" => out = Redact(impl, label, text)

\* a finished call that read the table backwards, collected its candidates
\* in another order than the dictionary order gives, and redacted something
C11_Witness ==
  /\ pc = "done"
  /\ order = "reversed"
  /\ FindAll(Reverse(PatternsOf(impl)), text, 1) # FindAll(PatternsOf(impl), text, 1)
  /\ Len(accepted) >= 1
  /\ \E c \in Candidates : c \notin AcceptedSet

(***************************************************************************)
(* C12  Duplicate tolerance as claimed: of a span that occurs more than    *)
(* once in the candidate list exactly one copy is accepted, and the output *)
(* is the output of the de-duplicated candidate list.                      *)
(***************************************************************************)
C12_ExactlyOneCopy ==
  pc = "done" =>
    \A c \in Candidates :
      Count(spans, c) >= 2 =>
        /\ Count(accepted, c) = 1
        /\ out = RedactSpans(impl, label, text, Dedup(spans))

(***************************************************************************)
(* C12 amended: of a span that occurs more than once in the candidate list *)
(* at most one copy is accepted, exactly one unless the span overlaps an   *)
(* accepted span that precedes it in the order, and the output is the      *)
(* output of the de-duplicated candidate list.                             *)
(***************************************************************************)
C12_AtMostOneCopy ==
  pc = "done" =>
    \A c \in Candidates :
      Count(spans, c) >= 2 =>
        /\ Count(accepted, c) <= 1
        /\ Count(accepted, c) = 0 => BlockedByEarlier(c)
        /\ out = RedactSpans(impl, label, text, Dedup(spans))

\* a finished call that accepted one copy of a repeated span
C12_Witness ==
  /\ pc = "done"
  /\ \E c \in Candidates : Count(spans, c) >= 2 /\ Count(accepted, c) = 1

(***************************************************************************)
(* C13  Maximality: when a call finishes, every rejected candidate         *)
(* overlaps an accepted span.                                              *)
(***************************************************************************)
C13_Maximal ==
  pc = "done" =>
    \A c \in Candidates :
      c \notin AcceptedSet => \E a \in AcceptedSet : Overlap(a, c)

\* a finished call that rejected a candidate next to a span it accepted
C13_Witness ==
  /\ pc = "done"
  /\ \E c \in Candidates : c \notin AcceptedSet
  /\ Len(accepted) >= 2

\* no other candidate at least as long as c overlaps c
Unrivalled(c) ==
  ~\E d \in Candidates :
     d # c /\ d.end - d.start >= c.end - c.start /\ Overlap(d, c)

(***************************************************************************)
(* C14  Independent redaction as claimed: every candidate that no other    *)
(* candidate of greater or equal length overlaps is accepted, and when two *)
(* such candidates are disjoint the characters outside the accepted spans  *)
(* are the characters of the input.  It falls with C1 once                 *)
(* replace_identifiers has lengthened the buffer.                          *)
(***************************************************************************)
C14_Independent ==
  pc = "done" =>
    /\ \A c \in Candidates : Unrivalled(c) => c \in AcceptedSet
    /\ (\E a, b \in Candidates : Unrivalled(a) /\ Unrivalled(b) /\ ~Overlap(a, b)) =>
         \A p \in 0..(Len(text) - 1) :
           ~Covered(p) => p < Len(out) /\ At(out, p) = At(text, p)

\* the characters a redaction with the default label writes; no fragment of
\* the input texts carries one of them
PlaceholderChars == {"<", "I", "D", ">", " "}

\* some pattern of the table has a match in t that includes offset p
MatchIncludes(patterns, t, p) ==
  \E k \in 1..Len(patterns) : \E pos \in 0..p :
    MatchAt(patterns[k], t, pos) > p

(***************************************************************************)
(* C15  Placeholder is inert: in the output of a call with the default     *)
(* label no pattern of the table has a match that includes a position of   *)
(* an accepted span, and a call on the output of an earlier pass finds no  *)
(* candidate that includes a character written by that pass.               *)
(***************************************************************************)
C15_PlaceholderInert ==
  label = DefaultLabel =>
    /\ pc = "done" =>
         \A p \in 0..(Len(out) - 1) :
           Covered(p) => ~MatchIncludes(PatternsOf(impl), out, p)
    /\ pass > 1 =>
         \A c \in Candidates : \A p \in c.start..(c.end - 1) :
           At(text, p) \notin PlaceholderChars

\* a second pass that still finds an identifier next to the padded
\* placeholder the first pass wrote, and redacts it
C15_Witness ==
  /\ pc = "done"
  /\ label = DefaultLabel
  /\ pass > 1
  /\ Len(accepted) >= 1
  /\ \E p \in 0..(Len(text) - 1) : At(text, p) = " "
  /\ \E p \in 0..(Len(text) - 1) : At(text, p) = ">"

\* a day 01..31, a month 01..12 and four digits of year stand at offset pos
\* of t, no digit next to them
IsDateAt(t, pos) ==
  /\ pos + 10 <= Len(t)
  /\ \A k \in {0, 1, 3, 4, 6, 7, 8, 9} : At(t, pos + k) \in Digit
  /\ At(t, pos + 2) = "-" /\ At(t, pos + 5) = "-"
  /\ \/ At(t, pos) = "0" /\ At(t, pos + 1) # "0"
     \/ At(t, pos) \in {"1", "2"}
     \/ At(t, pos) = "3" /\ At(t, pos + 1) \in {"0", "1"}
  /\ \/ At(t, pos + 3) = "0" /\ At(t, pos + 4) # "0"
     \/ At(t, pos + 3) = "1" /\ At(t, pos + 4) \in {"0", "1", "2"}

\* the only digits of t are those of one date DD-MM-YYYY
OnlyDigitsAreDate(t) ==
  \E pos \in 0..(Len(t) - 10) :
    /\ IsDateAt(t, pos)
    /\ \A p \in 0..(Len(t) - 1) :
         At(t, p) \in Digit => pos <= p /\ p < pos + 10

(***************************************************************************)
(* C16  Dates are not corrupted, as claimed: a call on a text whose only   *)
(* digits form a date DD-MM-YYYY returns the text unchanged.  The table of *)
(* dataset_filter_ID.py has no letter prefix in RUC_PAN and matches the    *)
(* date.                                                                   *)
(***************************************************************************)
C16_DateUnchanged ==
  pc = "done" /\ OnlyDigitsAreDate(text) => out = text

(***************************************************************************)
(* C17  No shared mutable state: whatever the interleaving of the calls,   *)
(* the pattern list is never written and every call that has returned     *)
(* returned what it returns for its text when it runs alone.               *)
(***************************************************************************)
C17_NoSharedState ==
  /\ frames.catalog = RAW_PATTERNS
  /\ \A c \in CallIds :
       frames.calls[c].pc = "done" =>
         frames.calls[c].out = Redact(impl, label, frames.calls[c].text)

\* one call has returned a redacted text while another call, on another
\* text, is in the middle of its loop
C17_Witness ==
  \E c, e \in CallIds :
    /\ c # e
    /\ frames.calls[c].text # frames.calls[e].text
    /\ frames.calls[c].pc = "done"
    /\ frames.calls[c].out # frames.calls[c].text
    /\ frames.calls[e].pc = "loop"
    /\ frames.locals[Locals(e)].i > 1
    /\ frames.locals[Locals(e)].i <= Len(frames.locals[Locals(e)].spans)

(***************************************************************************)
(* C18  A malformed pattern is fatal at construction, as claimed: over a   *)
(* table with a malformed source string the process fails while the module *)
(* is imported, no call is entered, and no error is raised inside a call.  *)
(* reemplazar_identificadores compiles nothing before its first call.      *)
(***************************************************************************)
C18_FatalAtConstruction ==
  boot.bad # 0 =>
    /\ boot.pc \in {"import", "failed"}
    /\ boot.failedIn \in {"none", "construction"}
    /\ boot.served = 0

\* over a table with a malformed source string no call returns an output
C18_NoOutputWithBadTable ==
  boot.bad # 0 => boot.served = 0

(***************************************************************************)
(* C19  Non-string values never reach the redactor, as claimed: every      *)
(* value a dataset script calls the redactor on is a str.  All three       *)
(* scripts call it on every value of the column.                           *)
(***************************************************************************)
C19_NeverCalledOnNonString ==
  \A j \in 1..Len(job.calls) : job.calls[j].isStr

(***************************************************************************)
(* C20  Other columns preserved, as claimed: the written dataset has one   *)
(* record per input record, each with the other column of the input        *)
(* record unchanged.  dataset_filter_ID.py builds the written dataset from *)
(* the text column alone.                                                  *)
(***************************************************************************)
C20_OtherColumnsKept ==
  job.pc = "saved" =>
    /\ Len(job.written) = Len(job.rows)
    /\ \A j \in 1..Len(job.rows) :
         /\ "other" \in DOMAIN job.written[j]
         /\ job.written[j].other = job.rows[j].other

\* the runs of filter_ID.py and of full_anon.py keep the other column
C20_MappedKeepsOthers ==
  job.layer # "dataset_filter_ID" => C20_OtherColumnsKept

\* a run that was handed str values only never calls the redactor on
\* anything else
C19_StrRowsOnly ==
  (\A j \in 1..Len(job.rows) : job.rows[j].text.isStr) => C19_NeverCalledOnNonString

\* the events of the running batch call, in the order they happened
Log == worker.batch.log

\* the text at place k of the batch is left out of the PII pass
Excluded(v) == ~v.isStr \/ Len(v.str) > max_text_len

(***************************************************************************)
(* C21  Pass ordering in process_batch: whenever the identifier redactor   *)
(* is called for a text that takes both passes, the anonymization of that  *)
(* text has already finished, and the redactor is called on the text the   *)
(* anonymization returned.                                                 *)
(***************************************************************************)
C21_PiiPassFirst ==
  worker.fn = "process_batch" =>
    \A j \in 1..Len(Log) :
      (Log[j].op = "redact" /\ ~Excluded(worker.batch.texts[Log[j].k])) =>
        \E h \in 1..(j - 1) :
          /\ Log[h].op = "anonymize"
          /\ Log[h].k = Log[j].k
          /\ Log[h].arg = worker.batch.texts[Log[j].k]
          /\ Log[j].arg = Log[h].out

\* a batch call that returned after it redacted a text the PII pass had
\* changed
C21_Witness ==
  /\ worker.fn = "process_batch"
  /\ worker.pc = "returned"
  /\ \E j \in 1..Len(Log) :
       /\ Log[j].op = "redact"
       /\ ~Excluded(worker.batch.texts[Log[j].k])
       /\ Log[j].arg # worker.batch.texts[Log[j].k]

(***************************************************************************)
(* C22  Greedy selection rule: an iteration discards its span only if the  *)
(* span overlaps a span that stands before it in the sorted list, was      *)
(* accepted, and is strictly longer or as long with a start offset less    *)
(* than or equal to its own.                                               *)
(***************************************************************************)
C22_DiscardedOnlyIfPreceded ==
  [][ ( /\ pc = "loop"
        /\ i <= Len(spans)
        /\ i' = i + 1
        /\ accepted' = accepted ) =>
        \E h \in 1..(i - 1) :
          /\ spans[h] \in AcceptedSet
          /\ Overlap(spans[h], spans[i])
          /\ \/ spans[h].end - spans[h].start > spans[i].end - spans[i].start
             \/ /\ SameLength(spans[h], spans[i])
                /\ spans[h].start <= spans[i].start ]_vars

\* a finished call that discarded a span which no longer accepted span
\* overlaps, for an accepted span of its own length further left
C22_Witness ==
  /\ pc = "done"
  /\ \E c \in Candidates \ AcceptedSet :
       /\ \E a \in AcceptedSet :
            Overlap(a, c) /\ SameLength(a, c) /\ a.start < c.start
       /\ ~\E a \in AcceptedSet :
            Overlap(a, c) /\ a.end - a.start > c.end - c.start

(***************************************************************************)
(* C23  Loop invariant as claimed: between the iterations the occupancy    *)
(* list has one entry per position of the input, the character buffer is  *)
(* as long as the input, and a position is marked exactly when it lies     *)
(* inside an accepted span.  The buffer of replace_identifiers grows when  *)
(* the label is longer than an accepted span (C1).                         *)
(***************************************************************************)
C23_LoopInvariant ==
  pc = "loop" =>
    /\ Len(occupied) = Len(text)
    /\ Len(chars) = Len(text)
    /\ \A p \in 0..(Len(text) - 1) : occupied[p + 1] <=> Covered(p)

\* the part about the occupancy list holds for every label
C23_OccupancyExact ==
  pc = "loop" =>
    /\ Len(occupied) = Len(text)
    /\ \A p \in 0..(Len(text) - 1) : occupied[p + 1] <=> Covered(p)

\* with the default label the whole invariant holds
C23_DefaultLabelInvariant ==
  label = DefaultLabel => C23_LoopInvariant

\* the number of valid texts among the first k - 1 of the batch
ValidBefore(k) ==
  Len(TrueIndices(SubSeq(worker.batch.valid_mask, 1, k - 1), 1))

\* what the PII pass can return for t
PiiOutputs(t) ==
  IF Excluded(t) THEN {t}
  ELSE {t, AnonymizeWith(t, [pos |-> 0, text |-> t, hit |-> TRUE])}

\* what the batch function fn can return for the text t
DerivedFrom(fn, t) ==
  IF fn = "_anonymize_batch" THEN PiiOutputs(t)
  ELSE { Str(Redact(REPLACE, DefaultLabel, x.str)) : x \in { y \in PiiOutputs(t) : y.isStr } }

(***************************************************************************)
(* C24  Batch alignment as claimed: for every batch the function returns,  *)
(* no exception ending the loop; new_texts has one entry per text handled, *)
(* entry j is derived from text j, idx is the number of valid texts seen   *)
(* so far and never runs past the detections, and every detection handed   *)
(* to the anonymizer is the one computed for the text it is applied to.    *)
(* process_batch does not return from a batch that holds a value that is   *)
(* not a str (C19).                                                        *)
(***************************************************************************)
C24_BatchAligned ==
  /\ worker.batch.error \notin {"IndexError", "TypeError", "AttributeError"}
  /\ worker.pc \in {"loop", "returned"} =>
       /\ Len(worker.batch.new_texts) = worker.batch.k - 1
       /\ worker.batch.idx = ValidBefore(worker.batch.k)
       /\ worker.batch.idx <= Len(worker.batch.detections)
       /\ \A j \in 1..Len(worker.batch.new_texts) :
            worker.batch.new_texts[j] \in DerivedFrom(worker.fn, worker.batch.texts[j])
  /\ worker.pc = "returned" =>
       Len(worker.batch.new_texts) = Len(worker.batch.texts)
  /\ \A j \in 1..Len(Log) :
       Log[j].op = "anonymize" =>
         /\ Log[j].arg = worker.batch.texts[Log[j].k]
         /\ Log[j].res.text = Log[j].arg
         /\ Log[j].res.pos = ValidBefore(Log[j].k) + 1

\* the alignment itself holds in both functions: idx never runs past the
\* detections, and what was written and what was handed to the anonymizer
\* belongs to the text at hand
C24_AlignedWhileRunning ==
  /\ worker.batch.error # "IndexError"
  /\ worker.pc \in {"loop", "returned"} =>
       /\ Len(worker.batch.new_texts) = worker.batch.k - 1
       /\ worker.batch.idx = ValidBefore(worker.batch.k)
       /\ \A j \in 1..Len(worker.batch.new_texts) :
            worker.batch.new_texts[j] \in DerivedFrom(worker.fn, worker.batch.texts[j])
  /\ \A j \in 1..Len(Log) :
       Log[j].op = "anonymize" => Log[j].res.pos = ValidBefore(Log[j].k) + 1

\* _anonymize_batch, its engines built, returns from every batch
C24_PresidioOnlyReturns ==
  worker.fn = "_anonymize_batch" =>
    worker.batch.error \notin {"IndexError", "TypeError"}

(***************************************************************************)
(* C25  Pass-through in _anonymize_batch: a text that is not a str or is   *)
(* longer than max_len is written to the output unchanged, and neither the *)
(* analyzer nor the anonymizer is called on it.                            *)
(***************************************************************************)
C25_ExcludedPassThrough ==
  worker.fn = "_anonymize_batch" =>
    /\ \A j \in 1..Len(worker.batch.new_texts) :
         Excluded(worker.batch.texts[j]) =>
           worker.batch.new_texts[j] = worker.batch.texts[j]
    /\ \A j \in 1..Len(Log) :
         /\ ~Excluded(Log[j].arg)
         /\ Log[j].op = "anonymize" => ~Excluded(worker.batch.texts[Log[j].k])

\* _anonymize_batch has returned from a batch that holds a str longer than
\* max_len next to a text it anonymized
C25_Witness ==
  /\ worker.fn = "_anonymize_batch"
  /\ worker.pc = "returned"
  /\ \E j \in 1..Len(worker.batch.texts) :
       /\ worker.batch.texts[j].isStr
       /\ Excluded(worker.batch.texts[j])
       /\ HasDigit(worker.batch.texts[j])
  /\ \E j \in 1..Len(Log) : Log[j].op = "anonymize"

\* a str longer than max_len
TooLong(v) == v.isStr /\ Len(v.str) > max_text_len

(***************************************************************************)
(* C26  No length cap on identifier redaction: in process_batch a str      *)
(* longer than max_len is never handed to the anonymizer, and its output   *)
(* is replace_identifiers of the original text.                            *)
(***************************************************************************)
C26_LongTextsStillRedacted ==
  worker.fn = "process_batch" =>
    /\ \A j \in 1..Len(worker.batch.new_texts) :
         TooLong(worker.batch.texts[j]) =>
           worker.batch.new_texts[j]
             = Str(Redact(REPLACE, DefaultLabel, worker.batch.texts[j].str))
    /\ \A j \in 1..Len(Log) :
         Log[j].op \in {"analyze", "anonymize"} => ~TooLong(Log[j].arg)

\* process_batch has returned a batch in which the identifier of a str
\* longer than max_len is redacted
C26_Witness ==
  /\ worker.fn = "process_batch"
  /\ worker.pc = "returned"
  /\ \E j \in 1..Len(worker.batch.texts) :
       /\ TooLong(worker.batch.texts[j])
       /\ worker.batch.new_texts[j] # worker.batch.texts[j]

(***************************************************************************)
(* C27  Initialize once per worker: over the batch calls of a worker each  *)
(* engine is constructed at most once, and an engine global that holds an  *)
(* instance keeps that instance in every later call.                       *)
(***************************************************************************)
C27_EnginesBuiltOnce ==
  [][ /\ worker.analyzersBuilt' <= 1
      /\ worker.anonymizersBuilt' <= 1
      /\ worker.analyzer # NoEngine => worker.analyzer' = worker.analyzer
      /\ worker.anonymizer # NoEngine => worker.anonymizer' = worker.anonymizer ]_vars

\* the second batch call of a worker has returned, served by the engines
\* the first call constructed
C27_Witness ==
  /\ worker.served = 2
  /\ worker.pc = "returned"
  /\ worker.failures = 0
  /\ worker.analyzer = 1
  /\ worker.anonymizer = 1
  /\ \E j \in 1..Len(Log) : Log[j].op = "anonymize"

(***************************************************************************)
(* C28  Engines are set together, as claimed: whenever ensure_presidio or  *)
(* _ensure_engines has returned normally, neither engine global is None.   *)
(* After a call in which AnonymizerEngine() raised, the analyzer is set,   *)
(* the test is false and the next call returns with the anonymizer None.   *)
(***************************************************************************)
C28_BothEnginesSet ==
  worker.pc \in {"analyze", "loop", "returned"} =>
    worker.analyzer # NoEngine /\ worker.anonymizer # NoEngine

\* the analyzer is never None after a normal return
C28_AnalyzerSet ==
  worker.pc \in {"analyze", "loop", "returned"} => worker.analyzer # NoEngine

====
